---- MODULE Spec2Model ----
(***************************************************************************)
(* Model of the e-ink screen firmware (eink-screen-component/src).         *)
(*                                                                         *)
(*  - ConfigManager::loadRemoteConfig and ::buildImageUrl                  *)
(*    (config_manager.cpp),                                                *)
(*  - the chunk arithmetic and the render pass UiRenderer::showRemoteImage *)
(*    (ui_renderer.cpp), one action per step of the chunk loop,            *)
(*  - HttpConnection (http_client.cpp),                                    *)
(*  - setup() and loop() of main.cpp, the polling scheduler.  main.cpp     *)
(*    carries its own inline copies of the configuration fetch and of the  *)
(*    render pass; the scheduler modelled here drives the extracted        *)
(*    versions (config_manager.cpp, ui_renderer.cpp) in their place.       *)
(*                                                                         *)
(* Strings are sequences of one-character strings, so that formatting      *)
(* (snprintf into a fixed buffer) and query-parameter lookup are computed. *)
(***************************************************************************)
EXTENDS Integers, Sequences, FiniteSets, TLC

VARIABLES
    config,             \* AppState::config (RemoteConfig)
    lastRenderSuccess,  \* AppState::lastRenderSuccess
    lastRefreshTime,    \* lastRefreshTime (unsigned long, 32 bit)
    currentTime,        \* loop()'s local currentTime
    now,                \* true time in ms since boot; millis() is now mod 2^32
    wifi,               \* WiFi.status() == WL_CONNECTED
    pc,                 \* position of the single thread
    inSetup,            \* TRUE while setup() runs, FALSE inside loop()
    chunk,              \* showRemoteImage's loop variable
    geom,               \* showRemoteImage's locals totalPixels .. rowsPerChunk
    httpOpen,           \* the current HttpConnection has begun and not ended
    bytesRead,          \* showRemoteImage's local bytesRead of the current chunk
    pages,              \* nextPage() calls that returned true in this draw cycle
    retries,            \* iterations of the current reconnect loop
    log,                \* history: calls made by the refresh in progress
    prevRet,            \* history: outcome of the pass before the current one
    lastRet,            \* history: outcome of the current / latest pass
    cfgBefore,          \* history: config when loadRemoteConfig was entered
    cfgRet,             \* history: what the latest loadRemoteConfig returned
    attemptStart,       \* history: true time at which the latest attempt began
    prevAttemptStart,   \* history: true time at which the attempt before it began
    gapInterval,        \* history: refreshIntervalSec compared at the later start
    fin,                \* input of the function under test (function specs)
    fout                \* its result

vars == <<config, lastRenderSuccess, lastRefreshTime, currentTime, now, wifi, pc,
          inSetup, chunk, geom, httpOpen, bytesRead, pages, retries, log, prevRet,
          lastRet, cfgBefore, cfgRet, attemptStart, prevAttemptStart, gapInterval, fin, fout>>

----------------------------------------------------------------------------
(* Program constants                                                       *)

RENDER_CHUNKS == 3
PANEL_WIDTH == 800
PANEL_HEIGHT == 480
BITMAP_SIZE == (PANEL_WIDTH * PANEL_HEIGHT) \div 8
CHUNK_SIZE == BITMAP_SIZE \div RENDER_CHUNKS
BMP_HEADER_SIZE == 62
URL_BUFFER_SIZE == 2048
HTTP_CODE_OK == 200
DEFAULT_THRESHOLD == 128
DEFAULT_REFRESH_SEC == 60
LOOP_DELAY_MS == 1000
RECONNECT_DELAY_MS == 100
MS_PER_SEC == 1000
INT_BITS == 32
LONG_BITS == 32
UINT16_BITS == 16

RECURSIVE Pow2(_)
Pow2(n) == IF n = 0 THEN 1 ELSE 2 * Pow2(n - 1)

\* The model checker's integers are 32 bits wide themselves, so no value
\* above INT_MAX is ever formed: wider quantities are kept as 16-bit limbs.
INT_MAX == ((Pow2(INT_BITS - 2) - 1) * 2) + 1
INT_MIN == (0 - INT_MAX) - 1
UINT16_MAX == Pow2(UINT16_BITS) - 1
LIMB == Pow2(LONG_BITS \div 2)

----------------------------------------------------------------------------
(* unsigned long (32 bit) as two 16-bit limbs                              *)

U32(h, l) == [hi |-> h, lo |-> l]
U32Zero == U32(0, 0)

\* a + d mod 2^32, for an int d >= 0
U32Add(a, d) ==
    LET s == a.lo + (d % LIMB)
        c == (d \div LIMB) + (s \div LIMB)
    IN  U32((a.hi + c) % LIMB, s % LIMB)

\* whether a + d passes 2^32 - 1
U32AddWraps(a, d) ==
    LET s == a.lo + (d % LIMB)
        c == (d \div LIMB) + (s \div LIMB)
    IN  a.hi + c >= LIMB

\* a - b mod 2^32: unsigned subtraction
U32Sub(a, b) ==
    LET borrow == IF a.lo < b.lo THEN 1 ELSE 0
    IN  U32(((a.hi - b.hi) - borrow) % LIMB, (a.lo - b.lo) % LIMB)

\* a / k for an int k in 1..LIMB-1 whose quotient fits an int
U32Div(a, k) == ((a.hi \div k) * LIMB) + ((((a.hi % k) * LIMB) + a.lo) \div k)

U32Less(a, b) == a.hi < b.hi \/ (a.hi = b.hi /\ a.lo < b.lo)
U32OfInt(n) == U32(n \div LIMB, n % LIMB)

----------------------------------------------------------------------------
(* Strings                                                                 *)

Digits == <<"0", "1", "2", "3", "4", "5", "6", "7", "8", "9">>

RECURSIVE FmtNat(_)
FmtNat(n) == IF n < 10 THEN <<Digits[n + 1]>>
             ELSE FmtNat(n \div 10) \o <<Digits[(n % 10) + 1]>>

\* printf's %d
FmtInt(n) == IF n < 0 THEN <<"-">> \o FmtNat(0 - n) ELSE FmtNat(n)

\* a string of n copies of the character c
Rep(c, n) == [i \in 1..n |-> c]

\* snprintf(buf, size, ...): at most size - 1 characters are stored
Snprintf(size, s) == IF Len(s) <= size - 1 THEN s ELSE SubSeq(s, 1, size - 1)

STR_EMPTY == <<>>
STR_DEFAULT_BASE_URL ==
    <<"h","t","t","p",":","/","/","1","9","2",".","1","6","8",".","0",".",
      "1","2","9",":","8","0","0","0">>
STR_CONFIG_PATH == <<"/","c","o","n","f","i","g">>
STR_IMAGE_PATH == <<"/","i","m","a","g","e">>
STR_BMP == <<"b","m","p">>
STR_Q_FORMAT == <<"?","f","o","r","m","a","t","=">>
STR_A_FORMAT == <<"&","f","o","r","m","a","t","=">>
STR_A_THRESHOLD == <<"&","t","h","r","e","s","h","o","l","d","=">>
STR_A_TEMPLATE == <<"&","t","e","m","p","l","a","t","e","=">>
STR_Q_URL == <<"?","u","r","l","=">>
STR_A_OFFSET == <<"&","o","f","f","s","e","t","=">>
STR_A_LIMIT == <<"&","l","i","m","i","t","=">>

----------------------------------------------------------------------------
(* RemoteConfig (config.h)                                                 *)

DefaultConfig ==
    [imageBaseUrl       |-> STR_DEFAULT_BASE_URL,
     imagePath          |-> STR_IMAGE_PATH,
     imageFormat        |-> STR_BMP,
     imageThreshold     |-> DEFAULT_THRESHOLD,
     imageUrl           |-> STR_EMPTY,
     imageTemplate      |-> STR_EMPTY,
     displayWidth       |-> PANEL_WIDTH,
     displayHeight      |-> PANEL_HEIGHT,
     refreshIntervalSec |-> DEFAULT_REFRESH_SEC]

ConfigFields == DOMAIN DefaultConfig

----------------------------------------------------------------------------
(* HttpConnection (http_client.cpp)                                        *)

\* begin(): fails when the link is down or when HTTPClient::begin refuses
HttpBegin(connected, clientOk) == connected /\ clientOk

\* The session a call belongs to: the chunk index, or this for the config fetch
CONFIG_SESSION == 0 - 1

Call(e, k, v) == [e |-> e, k |-> k, v |-> v]

----------------------------------------------------------------------------
(* ConfigManager::loadRemoteConfig (config_manager.cpp)                    *)
(* A parsed JSON document is the set of key paths it holds and the values  *)
(* stored under the leaf keys.                                             *)

Has(doc, path) == path \in doc.has

\* conversion of a JSON number to uint16_t: a value that does not fit reads as 0
AsUint16(v) == IF v >= 0 /\ v <= UINT16_MAX THEN v ELSE 0

ApplyImageMutantIgnoresParametersKey(cfg, doc) ==
    IF Has(doc, "image")
    THEN [cfg EXCEPT
            !.imageBaseUrl  = IF Has(doc, "image.base_url")
                              THEN doc.val.base_url ELSE @,
            !.imagePath     = IF Has(doc, "image.path")
                              THEN doc.val.path ELSE @,
            !.imageFormat   = doc.val.format,
            !.imageThreshold = AsUint16(doc.val.threshold),
            !.imageUrl      = doc.val.url,
            !.imageTemplate = doc.val.template]
    ELSE cfg

\* lines 39-56: the "image" object
ApplyImage(cfg, doc) ==
    IF Has(doc, "image")
    THEN LET p == Has(doc, "image.parameters")
         IN  [cfg EXCEPT
                !.imageBaseUrl  = IF Has(doc, "image.base_url")
                                  THEN doc.val.base_url ELSE @,
                !.imagePath     = IF Has(doc, "image.path")
                                  THEN doc.val.path ELSE @,
                !.imageFormat   = IF p /\ Has(doc, "image.parameters.format")
                                  THEN doc.val.format ELSE @,
                !.imageThreshold = IF p /\ Has(doc, "image.parameters.threshold")
                                  THEN AsUint16(doc.val.threshold) ELSE @,
                !.imageUrl      = IF p /\ Has(doc, "image.parameters.url")
                                  THEN doc.val.url ELSE @,
                !.imageTemplate = IF p /\ Has(doc, "image.parameters.template")
                                  THEN doc.val.template ELSE @]
    ELSE cfg

\* lines 58-65: the "display" object
ApplyDisplay(cfg, doc) ==
    IF Has(doc, "display")
    THEN [cfg EXCEPT
            !.displayWidth  = IF Has(doc, "display.width")
                              THEN AsUint16(doc.val.width) ELSE @,
            !.displayHeight = IF Has(doc, "display.height")
                              THEN AsUint16(doc.val.height) ELSE @,
            !.refreshIntervalSec = IF Has(doc, "display.refresh_interval_sec")
                              THEN AsUint16(doc.val.refresh_interval_sec) ELSE @]
    ELSE cfg

LoadRemoteConfigMutantParseErrorApplies(cfg, connected, clientOk, httpCode, parseOk, doc) ==
    IF ~HttpBegin(connected, clientOk)
    THEN [ret |-> FALSE, config |-> cfg,
          calls |-> <<Call("begin", CONFIG_SESSION, 0)>>]
    ELSE IF httpCode # HTTP_CODE_OK
    THEN [ret |-> FALSE, config |-> cfg,
          calls |-> <<Call("begin", CONFIG_SESSION, 1),
                      Call("get", CONFIG_SESSION, httpCode),
                      Call("end", CONFIG_SESSION, 0)>>]
    ELSE [ret |-> parseOk, config |-> ApplyDisplay(ApplyImage(cfg, doc), doc),
          calls |-> <<Call("begin", CONFIG_SESSION, 1),
                      Call("get", CONFIG_SESSION, httpCode),
                      Call("end", CONFIG_SESSION, 0)>>]

LoadRemoteConfigMutantNoEndOnParseError(cfg, connected, clientOk, httpCode, parseOk, doc) ==
    IF ~HttpBegin(connected, clientOk)
    THEN [ret |-> FALSE, config |-> cfg,
          calls |-> <<Call("begin", CONFIG_SESSION, 0)>>]
    ELSE IF httpCode # HTTP_CODE_OK
    THEN [ret |-> FALSE, config |-> cfg,
          calls |-> <<Call("begin", CONFIG_SESSION, 1),
                      Call("get", CONFIG_SESSION, httpCode),
                      Call("end", CONFIG_SESSION, 0)>>]
    ELSE IF ~parseOk
    THEN [ret |-> FALSE, config |-> cfg,
          calls |-> <<Call("begin", CONFIG_SESSION, 1),
                      Call("get", CONFIG_SESSION, httpCode)>>]
    ELSE [ret |-> TRUE, config |-> ApplyDisplay(ApplyImage(cfg, doc), doc),
          calls |-> <<Call("begin", CONFIG_SESSION, 1),
                      Call("get", CONFIG_SESSION, httpCode),
                      Call("end", CONFIG_SESSION, 0)>>]

\* The whole function: its return value, the configuration it leaves behind
\* and the HttpConnection calls it makes, in order.
LoadRemoteConfig(cfg, connected, clientOk, httpCode, parseOk, doc) ==
    IF ~HttpBegin(connected, clientOk)
    THEN [ret |-> FALSE, config |-> cfg,
          calls |-> <<Call("begin", CONFIG_SESSION, 0)>>]
    ELSE IF httpCode # HTTP_CODE_OK
    THEN [ret |-> FALSE, config |-> cfg,
          calls |-> <<Call("begin", CONFIG_SESSION, 1),
                      Call("get", CONFIG_SESSION, httpCode),
                      Call("end", CONFIG_SESSION, 0)>>]
    ELSE IF ~parseOk
    THEN [ret |-> FALSE, config |-> cfg,
          calls |-> <<Call("begin", CONFIG_SESSION, 1),
                      Call("get", CONFIG_SESSION, httpCode),
                      Call("end", CONFIG_SESSION, 0)>>]
    ELSE [ret |-> TRUE, config |-> ApplyDisplay(ApplyImage(cfg, doc), doc),
          calls |-> <<Call("begin", CONFIG_SESSION, 1),
                      Call("get", CONFIG_SESSION, httpCode),
                      Call("end", CONFIG_SESSION, 0)>>]

----------------------------------------------------------------------------
(* ConfigManager::buildImageUrl (config_manager.cpp)                       *)

BuildImageUrl(cfg, chunkOffsetBytes, chunkLimitBytes) ==
    IF Len(cfg.imageTemplate) > 0
    THEN Snprintf(URL_BUFFER_SIZE,
            cfg.imageBaseUrl \o cfg.imagePath
            \o STR_Q_FORMAT \o cfg.imageFormat
            \o STR_A_THRESHOLD \o FmtInt(cfg.imageThreshold)
            \o STR_A_TEMPLATE \o cfg.imageTemplate
            \o STR_A_OFFSET \o FmtInt(chunkOffsetBytes)
            \o STR_A_LIMIT \o FmtInt(chunkLimitBytes))
    ELSE Snprintf(URL_BUFFER_SIZE,
            cfg.imageBaseUrl \o cfg.imagePath
            \o STR_Q_URL \o cfg.imageUrl
            \o STR_A_FORMAT \o cfg.imageFormat
            \o STR_A_THRESHOLD \o FmtInt(cfg.imageThreshold)
            \o STR_A_OFFSET \o FmtInt(chunkOffsetBytes)
            \o STR_A_LIMIT \o FmtInt(chunkLimitBytes))

----------------------------------------------------------------------------
(* Chunk arithmetic of UiRenderer::showRemoteImage (ui_renderer.cpp)       *)

\* C division truncates toward zero
CDiv(a, b) == IF a < 0 /\ a % b # 0 THEN (a \div b) + 1 ELSE a \div b

\* whether the product of two uint16_t values exceeds INT_MAX
ProductOverflows(w, h) == h > 0 /\ w > INT_MAX \div h

\* the low 32 bits of w * h read as a signed int, for a product above INT_MAX
WrappedProduct(w, h) ==
    LET a == (w \div 256) * h
        b == (w % 256) * h
        c == ((a % 256) * 256) + b
        pHi == (a \div 256) + (c \div LIMB)
        pLo == c % LIMB
    IN  ((pHi - LIMB) * LIMB) + pLo

\* int totalPixels = displayWidth * displayHeight: the uint16_t operands are
\* promoted to int; a product above INT_MAX is a signed overflow, whose result
\* is not defined (the wrapped product, or any other int)
TotalPixels(w, h) ==
    IF ~ProductOverflows(w, h) THEN {w * h}
    ELSE {WrappedProduct(w, h), INT_MIN, 0 - 1, 0, INT_MAX}

\* lines 195-198, given the product
Geometry(totalPixels, h) ==
    LET pixelsPerChunk == CDiv(totalPixels, RENDER_CHUNKS)
    IN  [totalPixels    |-> totalPixels,
         pixelsPerChunk |-> pixelsPerChunk,
         bytesPerChunk  |-> CDiv(pixelsPerChunk, 8),
         rowsPerChunk   |-> h \div RENDER_CHUNKS]

\* the offset without the BMP header
ChunkOffsetBytesMutantNoHeader(g, i) == i * g.bytesPerChunk

\* lines 204-205 and 270
ChunkOffsetBytes(g, i) == BMP_HEADER_SIZE + (i * g.bytesPerChunk)
ChunkLimitBytes(g, i) == g.bytesPerChunk
YPos(g, i) == i * g.rowsPerChunk

----------------------------------------------------------------------------
(* Initial state of the device (config.h, app_state.h, main.cpp globals)   *)

\* True time since boot: the number of times millis() has wrapped, and millis()
Time(w, ms) == [wraps |-> w, ms |-> ms]
TimeZero == Time(0, U32Zero)
NoTime == Time(0 - 1, U32Zero)
Millis(t) == t.ms
Advance(t, d) == Time(t.wraps + (IF U32AddWraps(t.ms, d) THEN 1 ELSE 0), U32Add(t.ms, d))

\* AppState::lastRenderSuccess before any pass has run
InitLastRenderSuccess == FALSE

NoGeometry == Geometry(0, 0)

SysInit ==
    /\ config = DefaultConfig
    /\ lastRenderSuccess = InitLastRenderSuccess
    /\ lastRefreshTime = U32Zero
    /\ currentTime = U32Zero
    /\ now = TimeZero
    /\ wifi = FALSE
    /\ inSetup = TRUE
    /\ chunk = 0
    /\ geom = NoGeometry
    /\ httpOpen = FALSE
    /\ bytesRead = 0
    /\ pages = 0
    /\ retries = 0
    /\ log = <<>>
    /\ prevRet = "none"
    /\ lastRet = "none"
    /\ cfgBefore = DefaultConfig
    /\ cfgRet = "none"
    /\ attemptStart = NoTime
    /\ prevAttemptStart = NoTime
    /\ gapInterval = 0

sysVars == <<config, lastRenderSuccess, lastRefreshTime, currentTime, now, wifi,
             inSetup, chunk, geom, httpOpen, bytesRead, pages, retries, log,
             prevRet, lastRet, cfgBefore, cfgRet, attemptStart, prevAttemptStart, gapInterval>>

----------------------------------------------------------------------------
(* Function specifications: one call of a function on inputs drawn from    *)
(* bounded sets.  fin holds the arguments, fout the result once pc is      *)
(* "fn_done".                                                              *)

MaxStrLen == 2
MaxSmallDim == 50

Bytes8N == 8 * RENDER_CHUNKS

STR_ALT_BASE_URL == <<"h","t","t","p",":","/","/","s">>
STR_ALT_PATH == <<"/","p">>
STR_PNG == <<"p","n","g">>

\* -------- buildImageUrl

UrlStrings == {Rep("t", n) : n \in 0..MaxStrLen} \cup {Rep("t", URL_BUFFER_SIZE)}

UrlConfigs ==
    {[DefaultConfig EXCEPT !.imageTemplate = t, !.imageUrl = u, !.imageThreshold = th] :
        t \in UrlStrings, u \in UrlStrings, th \in {0, DEFAULT_THRESHOLD, UINT16_MAX}}

UrlInit ==
    /\ SysInit
    /\ pc = "fn"
    /\ fin \in {[cfg |-> c, chunk |-> i] : c \in UrlConfigs, i \in 0..(RENDER_CHUNKS - 1)}
    /\ fout = <<>>

UrlApply ==
    /\ pc = "fn"
    /\ \E tp \in TotalPixels(fin.cfg.displayWidth, fin.cfg.displayHeight) :
          LET g == Geometry(tp, fin.cfg.displayHeight)
          IN  fout' = BuildImageUrl(fin.cfg, ChunkOffsetBytes(g, fin.chunk),
                                    ChunkLimitBytes(g, fin.chunk))
    /\ pc' = "fn_done"
    /\ UNCHANGED <<sysVars, fin>>

SpecUrl == UrlInit /\ [][UrlApply]_vars

\* -------- chunk arithmetic

LargestDim == (UINT16_MAX \div Bytes8N) * Bytes8N

PlanDims == (1..MaxSmallDim) \cup {PANEL_WIDTH, PANEL_HEIGHT, LargestDim, UINT16_MAX}

PlanInit ==
    /\ SysInit
    /\ pc = "fn"
    /\ fin \in {[w |-> w, h |-> h] : w \in PlanDims, h \in PlanDims}
    /\ fout = <<>>

PlanApply ==
    /\ pc = "fn"
    /\ \E tp \in TotalPixels(fin.w, fin.h) : fout' = Geometry(tp, fin.h)
    /\ pc' = "fn_done"
    /\ UNCHANGED <<sysVars, fin>>

SpecPlan == PlanInit /\ [][PlanApply]_vars

\* -------- loadRemoteConfig

ImageLeaves == {"image.base_url", "image.path"}
ParamLeaves == {"image.parameters.format", "image.parameters.threshold",
                "image.parameters.url", "image.parameters.template"}
DisplayLeaves == {"display.width", "display.height", "display.refresh_interval_sec"}

\* the key sets of well-formed documents: a key lies inside its parent object
KeySets ==
    {i \cup p \cup d :
        i \in {{}} \cup {{"image"} \cup x : x \in SUBSET ImageLeaves}
               \cup {{"image", "image.parameters"} \cup x \cup y :
                        x \in SUBSET ImageLeaves, y \in SUBSET ParamLeaves},
        p \in {{}},
        d \in {{}} \cup {{"display"} \cup x : x \in SUBSET DisplayLeaves}}

\* values a document stores under its leaf keys (read only where the key is held)
DocValues ==
    [base_url |-> <<"h","t","t","p",":","/","/","n">>,
     path |-> <<"/","n">>,
     format |-> <<"r","a","w">>,
     threshold |-> 200,
     url |-> <<"n">>,
     template |-> <<"d","a","s","h">>,
     width |-> 48,
     height |-> 24,
     refresh_interval_sec |-> 30]

AltConfig ==
    [imageBaseUrl       |-> STR_ALT_BASE_URL,
     imagePath          |-> STR_ALT_PATH,
     imageFormat        |-> STR_PNG,
     imageThreshold     |-> 1,
     imageUrl           |-> <<"u">>,
     imageTemplate      |-> <<"t">>,
     displayWidth       |-> 24,
     displayHeight      |-> 48,
     refreshIntervalSec |-> 2]

CfgInit ==
    /\ SysInit
    /\ pc = "fn"
    /\ fin \in {[cfg |-> c, connected |-> w, clientOk |-> b, httpCode |-> h,
                 parseOk |-> j, doc |-> [has |-> k, val |-> DocValues]] :
                    c \in {DefaultConfig, AltConfig}, w \in BOOLEAN, b \in BOOLEAN,
                    h \in {HTTP_CODE_OK, 404}, j \in BOOLEAN, k \in KeySets}
    /\ fout = <<>>

CfgApply ==
    /\ pc = "fn"
    /\ fout' = LoadRemoteConfig(fin.cfg, fin.connected, fin.clientOk, fin.httpCode,
                                fin.parseOk, fin.doc)
    /\ pc' = "fn_done"
    /\ UNCHANGED <<sysVars, fin>>

SpecCfg == CfgInit /\ [][CfgApply]_vars

\* -------- the polarity inversion of the transfer buffer (ui_renderer.cpp:265-268)

MaxSeqLen == 3
BYTE_BITS == 8

Byte == 0..(Pow2(BYTE_BITS) - 1)
SampleBytes == {0, 1, Pow2(BYTE_BITS - 1) - 1, Pow2(BYTE_BITS - 1), Pow2(BYTE_BITS) - 1}

\* sequences over S of length 0..n
SeqsUpTo(S, n) == UNION {[1..k -> S] : k \in 0..n}

\* using ! where ~ was meant
ComplementMutantLogicalNot(b) == IF b = 0 THEN 1 ELSE 0

\* line 267: ~ on the byte promoted to int, stored back into a uint8_t
Complement(b) == ((0 - b) - 1) % Pow2(BYTE_BITS)

\* inverting every byte of the buffer whatever was read
InvertBufferMutantWholeBuffer(buf, nRead) ==
    [i \in DOMAIN buf |-> Complement(buf[i])]

\* lines 266-268: for (int i = 0; i < bytesRead; i++) buffer[i] = ~buffer[i]
InvertBuffer(buf, nRead) ==
    [i \in DOMAIN buf |-> IF i <= nRead THEN Complement(buf[i]) ELSE buf[i]]

InvInputs == {<<b>> : b \in Byte} \cup SeqsUpTo(SampleBytes, MaxSeqLen)

InvInit ==
    /\ SysInit
    /\ pc = "fn"
    /\ fin \in InvInputs
    /\ fout = <<>>

InvApply ==
    /\ pc = "fn"
    /\ fout' = InvertBuffer(fin, Len(fin))
    /\ pc' = "fn_once"
    /\ UNCHANGED <<sysVars, fin>>

InvApplyAgain ==
    /\ pc = "fn_once"
    /\ fout' = InvertBuffer(fout, Len(fout))
    /\ pc' = "fn_done"
    /\ UNCHANGED <<sysVars, fin>>

SpecInv == InvInit /\ [][InvApply \/ InvApplyAgain]_vars

\* -------- one chunk's read into the transfer buffer (ui_renderer.cpp:258-268)

\* state.bmpBuffer is CHUNK_SIZE bytes in the firmware; here it is MaxBufLen
\* bytes, followed in AppState by lastRefreshTime (app_state.h:17-18), of
\* which one byte is kept.
MaxBufLen == 3
MemLen == MaxBufLen + 1

StaleBytes == {0, 1, Pow2(BYTE_BITS) - 1}
ArrivingBytes == {1, Pow2(BYTE_BITS - 1)}

\* <<"buf", memory before the read, bytes the server delivers, bytesPerChunk>>
BufInputs ==
    {<<"buf", old, rcv, want>> :
        old \in [1..MemLen -> StaleBytes],
        rcv \in SeqsUpTo(ArrivingBytes, MemLen),
        want \in 0..MemLen}

BufOld == fin[2]
BufReceived == fin[3]
BufWanted == fin[4]

\* line 258: readBytes stores what arrives, up to the requested length, from
\* index 0 on and returns how many bytes it stored
BytesStored(rcv, want) == IF Len(rcv) < want THEN Len(rcv) ELSE want
ReadBytes(mem, rcv, want) ==
    [i \in DOMAIN mem |-> IF i <= BytesStored(rcv, want) THEN rcv[i] ELSE mem[i]]

\* a store past the end of the array is undefined: the bytes land in what
\* follows the array, or the device faults
OverrunOutcomes(n) == IF n > MaxBufLen THEN BOOLEAN ELSE {FALSE}

BufInit ==
    /\ SysInit
    /\ pc = "fn"
    /\ fin \in BufInputs
    /\ fout = <<>>

\* line 258
BufRead ==
    /\ pc = "fn"
    /\ \E fault \in OverrunOutcomes(BytesStored(BufReceived, BufWanted)) :
        fout' = [mem |-> IF fault THEN BufOld
                         ELSE ReadBytes(BufOld, BufReceived, BufWanted),
                 bytesRead |-> BytesStored(BufReceived, BufWanted),
                 fault |-> fault]
    /\ pc' = "fn_once"
    /\ UNCHANGED <<sysVars, fin>>

\* lines 266-268
BufInvert ==
    /\ pc = "fn_once"
    /\ ~fout.fault
    /\ \E fault \in OverrunOutcomes(fout.bytesRead) :
        fout' = [fout EXCEPT !.mem = IF fault THEN @ ELSE InvertBuffer(@, fout.bytesRead),
                             !.fault = fault]
    /\ pc' = "fn_done"
    /\ UNCHANGED <<sysVars, fin>>

SpecBuf == BufInit /\ [][BufRead \/ BufInvert]_vars

\* -------- the requests of several refreshes in a row and their targets

MaxFetches == 3

\* the fetch always going to the compiled-in server
ConfigUrlMutantDefaultBase(cfg) == STR_DEFAULT_BASE_URL \o STR_CONFIG_PATH

\* config_manager.cpp line 8: String url = config.imageBaseUrl + CONFIG_PATH
ConfigUrl(cfg) == cfg.imageBaseUrl \o STR_CONFIG_PATH

\* documents that move the device to another server, and some that do not
FetchDocs ==
    {[has |-> {}, val |-> DocValues],
     [has |-> {"image", "image.base_url"}, val |-> DocValues],
     [has |-> {"image", "image.base_url", "image.path"},
      val |-> [DocValues EXCEPT !.base_url = STR_ALT_BASE_URL, !.path = STR_ALT_PATH]],
     [has |-> {"image", "image.path", "display", "display.width"}, val |-> DocValues]}

FetchInit ==
    /\ SysInit
    /\ pc = "fn"
    /\ fin = <<>>
    /\ fout = <<>>

\* one loadRemoteConfig() over a connected link; fout keeps what was asked for
\* and what came of it
FetchConfig ==
    /\ pc = "fn"
    /\ Len(fout) < MaxFetches
    /\ \E clientOk \in BOOLEAN, httpCode \in {HTTP_CODE_OK, 404},
          parseOk \in BOOLEAN, doc \in FetchDocs :
          LET r == LoadRemoteConfig(config, TRUE, clientOk, httpCode, parseOk, doc)
          IN  /\ config' = r.config
              /\ fout' = Append(fout, [op |-> "config", url |-> ConfigUrl(config),
                                       ret |-> r.ret, doc |-> doc,
                                       before |-> config.imageBaseUrl,
                                       after |-> r.config.imageBaseUrl])
    /\ UNCHANGED <<lastRenderSuccess, lastRefreshTime, currentTime, now, wifi, pc,
                   inSetup, chunk, geom, httpOpen, bytesRead, pages, retries, log,
                   prevRet, lastRet, cfgBefore, cfgRet, attemptStart,
                   prevAttemptStart, gapInterval, fin>>

\* the request of one chunk of the image (ui_renderer.cpp lines 204-207)
FetchImage ==
    /\ pc = "fn"
    /\ Len(fout) < MaxFetches
    /\ \E i \in 0..(RENDER_CHUNKS - 1) :
       \E tp \in TotalPixels(config.displayWidth, config.displayHeight) :
          LET g == Geometry(tp, config.displayHeight)
          IN  fout' = Append(fout, [op |-> "image",
                                    url |-> BuildImageUrl(config, ChunkOffsetBytes(g, i),
                                                          ChunkLimitBytes(g, i)),
                                    ret |-> TRUE, doc |-> [has |-> {}, val |-> DocValues],
                                    before |-> config.imageBaseUrl,
                                    after |-> config.imageBaseUrl])
    /\ UNCHANGED sysVars
    /\ UNCHANGED <<pc, fin>>

SpecFetch == FetchInit /\ [][FetchConfig \/ FetchImage]_vars

----------------------------------------------------------------------------
(* The device: setup() and loop() of main.cpp driving loadRemoteConfig and *)
(* showRemoteImage.  One action per step of the single thread.             *)

MaxNowMs == 4000
MaxRetries == 1
MaxPages == 2
SlowIoMs == 300

\* The pass specification (SpecPass, below) marks fin and explores every
\* answer of the server and of the panel; the device specification follows
\* the scheduler over several refreshes, and there a chunk that is not
\* refused arrives whole and is drawn in one page.
PASS_MARK == <<"pass">>
Detailed == fin = PASS_MARK

\* what the environment may answer
GetCodes == {HTTP_CODE_OK, 204, 404, 0 - 1}
ResponseSizes(g) ==
    IF Detailed THEN {0 - 1, 0, g.bytesPerChunk \div 2, g.bytesPerChunk}
    ELSE {0 - 1, 0, g.bytesPerChunk}
ReadCounts(g, sz) ==
    {n \in (IF Detailed THEN {0, sz} ELSE {g.bytesPerChunk}) :
        n >= 0 /\ n <= sz /\ n <= g.bytesPerChunk}
NextPageAnswers == IF Detailed THEN BOOLEAN ELSE {FALSE}
IoDurations == IF Detailed THEN {0} ELSE {0, SlowIoMs}

\* a width above the panel's, as a document may carry it
WIDE_WIDTH == (3 * PANEL_WIDTH) \div 2

\* the documents the configuration server may return
SysDocs ==
    {[has |-> {}, val |-> DocValues],
     [has |-> {"display", "display.refresh_interval_sec"},
      val |-> [DocValues EXCEPT !.refresh_interval_sec = 2]],
     [has |-> {"image", "image.parameters", "image.parameters.template",
               "display", "display.width", "display.height"},
      val |-> DocValues],
     [has |-> {"display", "display.width", "display.height"},
      val |-> [DocValues EXCEPT !.width = 50, !.height = 50]],
     [has |-> {"display", "display.width"},
      val |-> [DocValues EXCEPT !.width = WIDE_WIDTH]]}

\* The wrap specification (SpecWrap, below) puts in fin the reading of millis()
\* at which it takes the device up; the others start the clock at boot.
ClockStart == IF Len(fin) = 2 THEN fin[2] ELSE U32Zero

\* the model stops the clock MaxNowMs after it started it
CanWait(d) ==
    LET run == U32Sub(Millis(now), ClockStart)
    IN  run.hi = 0 /\ run.lo + d <= MaxNowMs

\* WiFi.status() changing under the program.  The program reads it at the
\* reconnect test of loop() and in every HttpConnection::begin; a drop at any
\* other point shows at the next of these reads, so it is taken there.
WifiDrop ==
    /\ pc \in {"connect", "config", "chunk_begin"}
    /\ wifi
    /\ wifi' = FALSE
    /\ UNCHANGED <<config, lastRenderSuccess, lastRefreshTime, currentTime, now, pc,
                   inSetup, chunk, geom, httpOpen, bytesRead, pages, retries, log,
                   prevRet, lastRet, cfgBefore, cfgRet, attemptStart,
                   prevAttemptStart, gapInterval, fin, fout>>

\* setupWifi(): while (wiFiMulti.run() != WL_CONNECTED) delay(100);
SetupWifi ==
    /\ pc = "setup_wifi"
    /\ \E connected \in BOOLEAN :
          /\ wifi' = connected
          /\ IF connected
             THEN /\ pc' = "config"
                  /\ retries' = 0
                  /\ now' = now
             ELSE /\ retries < MaxRetries
                  /\ CanWait(RECONNECT_DELAY_MS)
                  /\ pc' = pc
                  /\ retries' = retries + 1
                  /\ now' = Advance(now, RECONNECT_DELAY_MS)
    /\ attemptStart' = IF wifi' THEN now ELSE attemptStart
    /\ prevAttemptStart' = IF wifi' THEN attemptStart ELSE prevAttemptStart
    /\ log' = <<>>
    /\ UNCHANGED <<config, lastRenderSuccess, lastRefreshTime, currentTime, inSetup,
                   chunk, geom, httpOpen, bytesRead, pages, prevRet, lastRet,
                   cfgBefore, cfgRet, gapInterval, fin, fout>>

\* the difference taken as 0 when the clock reads less than the timestamp
ElapsedSecondsMutantNoWrap(cur, last) ==
    IF U32Less(cur, last) THEN 0 ELSE U32Div(U32Sub(cur, last), MS_PER_SEC)

\* main.cpp line 463: (currentTime - lastRefreshTime) / 1000 in unsigned long
ElapsedSeconds(cur, last) == U32Div(U32Sub(cur, last), MS_PER_SEC)

RefreshDueMutantStrictlyGreater(elapsedSeconds, cfg) ==
    elapsedSeconds > cfg.refreshIntervalSec

\* main.cpp line 466
RefreshDue(elapsedSeconds, cfg) == elapsedSeconds >= cfg.refreshIntervalSec

\* loop(), lines 462-466 and, when no refresh is due, line 494
LoopPoll ==
    /\ pc = "idle"
    /\ currentTime' = Millis(now)
    /\ IF RefreshDue(ElapsedSeconds(Millis(now), lastRefreshTime), config)
       THEN /\ pc' = "connect"
            /\ now' = now
            /\ attemptStart' = now
            /\ prevAttemptStart' = attemptStart
            /\ gapInterval' = config.refreshIntervalSec
            /\ log' = <<>>
       ELSE /\ CanWait(LOOP_DELAY_MS)
            /\ pc' = "idle"
            /\ now' = Advance(now, LOOP_DELAY_MS)
            /\ UNCHANGED <<attemptStart, prevAttemptStart, gapInterval, log>>
    /\ UNCHANGED <<config, lastRenderSuccess, lastRefreshTime, wifi, inSetup, chunk,
                   geom, httpOpen, bytesRead, pages, retries, prevRet, lastRet,
                   cfgBefore, cfgRet, fin, fout>>

\* Reconnect entering the retry loop without the test of WiFi.status()
ReconnectMutantAlwaysRuns ==
    /\ pc = "connect"
    /\ \E connected \in BOOLEAN :
          /\ wifi' = connected
          /\ IF connected
             THEN /\ pc' = "config"
                  /\ retries' = 0
                  /\ now' = now
             ELSE /\ retries < MaxRetries
                  /\ CanWait(RECONNECT_DELAY_MS)
                  /\ pc' = pc
                  /\ retries' = retries + 1
                  /\ now' = Advance(now, RECONNECT_DELAY_MS)
    /\ UNCHANGED <<config, lastRenderSuccess, lastRefreshTime, currentTime, inSetup,
                   chunk, geom, httpOpen, bytesRead, pages, log, prevRet, lastRet,
                   cfgBefore, cfgRet, attemptStart, prevAttemptStart, gapInterval,
                   fin, fout>>

\* loop(), lines 471-479
Reconnect ==
    /\ pc = "connect"
    /\ IF wifi
       THEN /\ pc' = "config"
            /\ retries' = 0
            /\ UNCHANGED <<wifi, now>>
       ELSE \E connected \in BOOLEAN :
              /\ wifi' = connected
              /\ IF connected
                 THEN /\ pc' = "config"
                      /\ retries' = 0
                      /\ now' = now
                 ELSE /\ retries < MaxRetries
                      /\ CanWait(RECONNECT_DELAY_MS)
                      /\ pc' = pc
                      /\ retries' = retries + 1
                      /\ now' = Advance(now, RECONNECT_DELAY_MS)
    /\ UNCHANGED <<config, lastRenderSuccess, lastRefreshTime, currentTime, inSetup,
                   chunk, geom, httpOpen, bytesRead, pages, log, prevRet, lastRet,
                   cfgBefore, cfgRet, attemptStart, prevAttemptStart, gapInterval,
                   fin, fout>>

\* LoadConfig with the render pass skipped when the reload failed
LoadConfigMutantSkipsRenderOnFailure ==
    /\ pc = "config"
    /\ \E clientOk \in BOOLEAN, httpCode \in {HTTP_CODE_OK, 404},
          parseOk \in BOOLEAN, doc \in SysDocs, d \in IoDurations :
          LET r == LoadRemoteConfig(config, wifi, clientOk, httpCode, parseOk, doc)
          IN  /\ d > 0 => CanWait(d)
              /\ config' = r.config
              /\ cfgRet' = IF r.ret THEN "ok" ELSE "fail"
              /\ log' = log \o r.calls
              /\ now' = Advance(now, d)
              /\ pc' = IF r.ret THEN "render" ELSE "returned"
    /\ cfgBefore' = config
    /\ UNCHANGED <<lastRenderSuccess, lastRefreshTime, currentTime, wifi, inSetup,
                   chunk, geom, httpOpen, bytesRead, pages, retries, prevRet, lastRet,
                   attemptStart, prevAttemptStart, gapInterval, fin, fout>>

\* setup() line 440 and loop() line 482: loadRemoteConfig()
LoadConfig ==
    /\ pc = "config"
    /\ \E clientOk \in BOOLEAN, httpCode \in {HTTP_CODE_OK, 404},
          parseOk \in BOOLEAN, doc \in SysDocs, d \in IoDurations :
          LET r == LoadRemoteConfig(config, wifi, clientOk, httpCode, parseOk, doc)
          IN  /\ d > 0 => CanWait(d)
              /\ config' = r.config
              /\ cfgRet' = IF r.ret THEN "ok" ELSE "fail"
              /\ log' = log \o r.calls
              /\ now' = Advance(now, d)
    /\ cfgBefore' = config
    /\ pc' = "render"
    /\ UNCHANGED <<lastRenderSuccess, lastRefreshTime, currentTime, wifi, inSetup,
                   chunk, geom, httpOpen, bytesRead, pages, retries, prevRet, lastRet,
                   attemptStart, prevAttemptStart, gapInterval, fin, fout>>

----------------------------------------------------------------------------
(* UiRenderer::showRemoteImage (ui_renderer.cpp)                           *)

\* lines 216-220
PresentOpenFailure(lastOk, k) ==
    IF lastOk THEN Call("showErrorIndicator", k, 0) ELSE Call("showError", k, 0)

\* the status code not handed to showError
PresentHttpFailureMutantDropsCode(lastOk, k, httpCode) ==
    IF lastOk THEN Call("showErrorIndicator", k, 0) ELSE Call("showError", k, 0)

\* lines 230-234
PresentHttpFailure(lastOk, k, httpCode) ==
    IF lastOk THEN Call("showErrorIndicator", k, 0) ELSE Call("showError", k, httpCode)

PresentSizeFailureMutantAlwaysFull(lastOk, k) == Call("showError", k, 0)

\* lines 244-248
PresentSizeFailure(lastOk, k) ==
    IF lastOk THEN Call("showErrorIndicator", k, 0) ELSE Call("showError", k, 0)

\* lines 192-201
RenderStart ==
    /\ pc = "render"
    /\ \E tp \in TotalPixels(config.displayWidth, config.displayHeight) :
          geom' = Geometry(tp, config.displayHeight)
    /\ chunk' = 0
    /\ prevRet' = lastRet
    /\ lastRet' = "running"
    /\ pc' = "chunk_begin"
    /\ UNCHANGED <<config, lastRenderSuccess, lastRefreshTime, currentTime, now, wifi,
                   inSetup, httpOpen, bytesRead, pages, retries, log, cfgBefore,
                   cfgRet, attemptStart, prevAttemptStart, gapInterval, fin, fout>>

\* ChunkBegin with the failed open skipping the chunk instead of returning
ChunkBeginMutantContinues ==
    /\ pc = "chunk_begin"
    /\ \E clientOk \in BOOLEAN :
          IF HttpBegin(wifi, clientOk)
          THEN /\ httpOpen' = TRUE
               /\ log' = Append(log, Call("begin", chunk, 1))
               /\ pc' = "chunk_get"
          ELSE /\ httpOpen' = httpOpen
               /\ log' = Append(log, Call("begin", chunk, 0))
               /\ pc' = "chunk_end"
    /\ UNCHANGED <<config, lastRenderSuccess, lastRefreshTime, currentTime, now, wifi,
                   inSetup, chunk, geom, bytesRead, pages, retries, prevRet, lastRet,
                   cfgBefore, cfgRet, attemptStart, prevAttemptStart, gapInterval,
                   fin, fout>>

\* ChunkBegin returning failure without presenting it
ChunkBeginMutantSilentFailure ==
    /\ pc = "chunk_begin"
    /\ \E clientOk \in BOOLEAN :
          IF HttpBegin(wifi, clientOk)
          THEN /\ httpOpen' = TRUE
               /\ log' = Append(log, Call("begin", chunk, 1))
               /\ pc' = "chunk_get"
               /\ lastRet' = lastRet
          ELSE /\ httpOpen' = httpOpen
               /\ log' = Append(log, Call("begin", chunk, 0))
               /\ pc' = "returned"
               /\ lastRet' = "fail"
    /\ chunk' = IF pc' = "returned" THEN 0 ELSE chunk
    /\ bytesRead' = 0
    /\ pages' = 0
    /\ UNCHANGED <<config, lastRenderSuccess, lastRefreshTime, currentTime, now, wifi,
                   inSetup, geom, retries, prevRet, cfgBefore,
                   cfgRet, attemptStart, prevAttemptStart, gapInterval, fin, fout>>

\* lines 203-222: the loop test was passed; build the URL, open the session
ChunkBegin ==
    /\ pc = "chunk_begin"
    /\ \E clientOk \in BOOLEAN :
          IF HttpBegin(wifi, clientOk)
          THEN /\ httpOpen' = TRUE
               /\ log' = Append(log, Call("begin", chunk, 1))
               /\ pc' = "chunk_get"
               /\ lastRet' = lastRet
          ELSE /\ httpOpen' = httpOpen
               /\ log' = log \o <<Call("begin", chunk, 0),
                                  PresentOpenFailure(lastRenderSuccess, chunk)>>
               /\ pc' = "returned"
               /\ lastRet' = "fail"
    /\ chunk' = IF pc' = "returned" THEN 0 ELSE chunk
    /\ bytesRead' = 0
    /\ pages' = 0
    /\ UNCHANGED <<config, lastRenderSuccess, lastRefreshTime, currentTime, now, wifi,
                   inSetup, geom, retries, prevRet, cfgBefore,
                   cfgRet, attemptStart, prevAttemptStart, gapInterval, fin, fout>>

\* ChunkGet with the failure presented while the session is still open
ChunkGetMutantPresentsBeforeEnd ==
    /\ pc = "chunk_get"
    /\ \E httpCode \in GetCodes :
          IF httpCode # HTTP_CODE_OK
          THEN /\ httpOpen' = FALSE
               /\ log' = log \o <<Call("get", chunk, httpCode),
                                  PresentHttpFailure(lastRenderSuccess, chunk, httpCode),
                                  Call("end", chunk, 0)>>
               /\ pc' = "returned"
               /\ lastRet' = "fail"
          ELSE /\ httpOpen' = httpOpen
               /\ log' = Append(log, Call("get", chunk, httpCode))
               /\ pc' = "chunk_read"
               /\ lastRet' = lastRet
    /\ chunk' = IF pc' = "returned" THEN 0 ELSE chunk
    /\ UNCHANGED <<config, lastRenderSuccess, lastRefreshTime, currentTime, now, wifi,
                   inSetup, geom, bytesRead, pages, retries, prevRet, cfgBefore,
                   cfgRet, attemptStart, prevAttemptStart, gapInterval, fin, fout>>

\* lines 224-236
ChunkGet ==
    /\ pc = "chunk_get"
    /\ \E httpCode \in GetCodes :
          IF httpCode # HTTP_CODE_OK
          THEN /\ httpOpen' = FALSE
               /\ log' = log \o <<Call("get", chunk, httpCode), Call("end", chunk, 0),
                                  PresentHttpFailure(lastRenderSuccess, chunk, httpCode)>>
               /\ pc' = "returned"
               /\ lastRet' = "fail"
          ELSE /\ httpOpen' = httpOpen
               /\ log' = Append(log, Call("get", chunk, httpCode))
               /\ pc' = "chunk_read"
               /\ lastRet' = lastRet
    /\ chunk' = IF pc' = "returned" THEN 0 ELSE chunk
    /\ UNCHANGED <<config, lastRenderSuccess, lastRefreshTime, currentTime, now, wifi,
                   inSetup, geom, bytesRead, pages, retries, prevRet, cfgBefore,
                   cfgRet, attemptStart, prevAttemptStart, gapInterval, fin, fout>>

\* ChunkRead with the length test sz < 0
ChunkReadMutantZeroLengthPasses ==
    /\ pc = "chunk_read"
    /\ \E sz \in ResponseSizes(geom) :
          IF sz < 0
          THEN /\ httpOpen' = FALSE
               /\ log' = log \o <<Call("size", chunk, sz), Call("end", chunk, 0),
                                  PresentSizeFailure(lastRenderSuccess, chunk)>>
               /\ pc' = "returned"
               /\ lastRet' = "fail"
               /\ UNCHANGED <<bytesRead, pages>>
          ELSE \E n \in ReadCounts(geom, sz) :
               /\ bytesRead' = n
               /\ log' = log \o <<Call("size", chunk, sz), Call("read", chunk, n)>>
               /\ pc' = "chunk_draw"
               /\ pages' = 0
               /\ UNCHANGED <<httpOpen, lastRet>>
    /\ chunk' = IF pc' = "returned" THEN 0 ELSE chunk
    /\ UNCHANGED <<config, lastRenderSuccess, lastRefreshTime, currentTime, now, wifi,
                   inSetup, geom, retries, prevRet, cfgBefore, cfgRet,
                   attemptStart, prevAttemptStart, gapInterval, fin, fout>>

\* ChunkRead with a short read treated like a non-positive length
ChunkReadMutantShortReadAborts ==
    /\ pc = "chunk_read"
    /\ \E sz \in ResponseSizes(geom) :
          IF sz <= 0
          THEN /\ httpOpen' = FALSE
               /\ log' = log \o <<Call("size", chunk, sz), Call("end", chunk, 0),
                                  PresentSizeFailure(lastRenderSuccess, chunk)>>
               /\ pc' = "returned"
               /\ lastRet' = "fail"
               /\ UNCHANGED <<bytesRead, pages>>
          ELSE \E n \in ReadCounts(geom, sz) :
               IF n < geom.bytesPerChunk
               THEN /\ httpOpen' = FALSE
                    /\ log' = log \o <<Call("size", chunk, sz), Call("read", chunk, n),
                                       Call("end", chunk, 0),
                                       PresentSizeFailure(lastRenderSuccess, chunk)>>
                    /\ pc' = "returned"
                    /\ lastRet' = "fail"
                    /\ UNCHANGED <<bytesRead, pages>>
               ELSE /\ bytesRead' = n
                    /\ log' = log \o <<Call("size", chunk, sz), Call("read", chunk, n)>>
                    /\ pc' = "chunk_draw"
                    /\ pages' = 0
                    /\ UNCHANGED <<httpOpen, lastRet>>
    /\ chunk' = IF pc' = "returned" THEN 0 ELSE chunk
    /\ UNCHANGED <<config, lastRenderSuccess, lastRefreshTime, currentTime, now, wifi,
                   inSetup, geom, retries, prevRet, cfgBefore, cfgRet,
                   attemptStart, prevAttemptStart, gapInterval, fin, fout>>

\* bytes of the bitmap drawBitmap reads from the buffer (line 273): width
\* pixels by rowsPerChunk rows, one bit each
DrawnBytes(cfg, g) == (cfg.displayWidth * g.rowsPerChunk) \div 8

\* An access to n bytes of the buffer's CHUNK_SIZE: past the end of the array
\* it is undefined -- it touches memory the program does not look at again and
\* the pass goes on, or the device faults and restarts.
OverrunFaults(n) == IF n > CHUNK_SIZE THEN BOOLEAN ELSE {FALSE}

\* the device after a restart: every global constructed anew, setup() entered
Restart ==
    /\ config' = DefaultConfig
    /\ lastRenderSuccess' = InitLastRenderSuccess
    /\ lastRefreshTime' = U32Zero
    /\ currentTime' = U32Zero
    /\ now' = TimeZero
    /\ wifi' = FALSE
    /\ inSetup' = TRUE
    /\ chunk' = 0
    /\ geom' = NoGeometry
    /\ httpOpen' = FALSE
    /\ bytesRead' = 0
    /\ pages' = 0
    /\ retries' = 0
    /\ log' = <<>>
    /\ prevRet' = "none"
    /\ lastRet' = "none"
    /\ cfgBefore' = DefaultConfig
    /\ cfgRet' = "none"
    /\ attemptStart' = NoTime
    /\ prevAttemptStart' = NoTime
    /\ gapInterval' = 0
    /\ pc' = "setup_wifi"
    /\ fout' = <<>>
    /\ UNCHANGED fin

\* lines 238-268
ChunkRead ==
    /\ pc = "chunk_read"
    /\ \E sz \in ResponseSizes(geom) :
          IF sz <= 0
          THEN /\ httpOpen' = FALSE
               /\ log' = log \o <<Call("size", chunk, sz), Call("end", chunk, 0),
                                  PresentSizeFailure(lastRenderSuccess, chunk)>>
               /\ pc' = "returned"
               /\ lastRet' = "fail"
               /\ chunk' = 0
               /\ UNCHANGED <<config, lastRenderSuccess, lastRefreshTime, currentTime,
                              now, wifi, inSetup, geom, bytesRead, pages, retries,
                              prevRet, cfgBefore, cfgRet, attemptStart,
                              prevAttemptStart, gapInterval, fin, fout>>
          ELSE \E n \in ReadCounts(geom, sz) : \E fault \in OverrunFaults(n) :
               IF fault
               THEN Restart
               ELSE /\ bytesRead' = n
                    /\ log' = log \o <<Call("size", chunk, sz), Call("read", chunk, n)>>
                    /\ pc' = "chunk_draw"
                    /\ pages' = 0
                    /\ UNCHANGED <<config, lastRenderSuccess, lastRefreshTime,
                                   currentTime, now, wifi, inSetup, chunk, geom,
                                   httpOpen, retries, prevRet, lastRet, cfgBefore,
                                   cfgRet, attemptStart, prevAttemptStart,
                                   gapInterval, fin, fout>>

\* ChunkDraw with the bitmap drawn on the first page only
ChunkDrawMutantDrawsOnce ==
    /\ pc = "chunk_draw"
    /\ log' = IF pages = 0 THEN Append(log, Call("draw", chunk, YPos(geom, chunk)))
              ELSE log
    /\ \E more \in NextPageAnswers :
          IF more
          THEN /\ pages + 1 < MaxPages
               /\ pages' = pages + 1
               /\ pc' = pc
          ELSE /\ pages' = pages
               /\ pc' = "chunk_end"
    /\ UNCHANGED <<config, lastRenderSuccess, lastRefreshTime, currentTime, now, wifi,
                   inSetup, chunk, geom, httpOpen, bytesRead, retries, prevRet,
                   lastRet, cfgBefore, cfgRet, attemptStart, prevAttemptStart,
                   gapInterval, fin, fout>>

\* lines 270-274: one turn of the do-while; drawBitmap reads DrawnBytes bytes
\* of the buffer, past its end when the configured width is above the panel's
ChunkDraw ==
    /\ pc = "chunk_draw"
    /\ \E fault \in OverrunFaults(DrawnBytes(config, geom)) :
          IF fault
          THEN Restart
          ELSE /\ log' = Append(log, Call("draw", chunk, YPos(geom, chunk)))
               /\ \E more \in NextPageAnswers :
                     IF more
                     THEN /\ pages + 1 < MaxPages
                          /\ pages' = pages + 1
                          /\ pc' = pc
                     ELSE /\ pages' = pages
                          /\ pc' = "chunk_end"
               /\ UNCHANGED <<config, lastRenderSuccess, lastRefreshTime, currentTime,
                              now, wifi, inSetup, chunk, geom, httpOpen, bytesRead,
                              retries, prevRet, lastRet, cfgBefore, cfgRet,
                              attemptStart, prevAttemptStart, gapInterval, fin, fout>>

\* ChunkEnd with the flag set after every chunk
ChunkEndMutantMarksEarly ==
    /\ pc = "chunk_end"
    /\ httpOpen' = FALSE
    /\ log' = Append(log, Call("end", chunk, 0))
    /\ bytesRead' = 0
    /\ pages' = 0
    /\ lastRenderSuccess' = TRUE
    /\ IF chunk + 1 < RENDER_CHUNKS
       THEN /\ chunk' = chunk + 1
            /\ pc' = "chunk_begin"
            /\ UNCHANGED lastRet
       ELSE /\ chunk' = 0
            /\ lastRet' = "ok"
            /\ pc' = "returned"
    /\ UNCHANGED <<config, lastRefreshTime, currentTime, now, wifi, inSetup, geom,
                   retries, prevRet, cfgBefore, cfgRet,
                   attemptStart, prevAttemptStart, gapInterval, fin, fout>>

\* ChunkEnd with the loop advancing by two
ChunkEndMutantSkipsChunk ==
    /\ pc = "chunk_end"
    /\ httpOpen' = FALSE
    /\ log' = Append(log, Call("end", chunk, 0))
    /\ bytesRead' = 0
    /\ pages' = 0
    /\ IF chunk + 2 < RENDER_CHUNKS
       THEN /\ chunk' = chunk + 2
            /\ pc' = "chunk_begin"
            /\ UNCHANGED <<lastRenderSuccess, lastRet>>
       ELSE /\ chunk' = 0
            /\ lastRenderSuccess' = TRUE
            /\ lastRet' = "ok"
            /\ pc' = "returned"
    /\ UNCHANGED <<config, lastRefreshTime, currentTime, now, wifi, inSetup, geom,
                   retries, prevRet, cfgBefore, cfgRet,
                   attemptStart, prevAttemptStart, gapInterval, fin, fout>>

\* lines 276-282: close the session, advance the loop, return after the last chunk
ChunkEnd ==
    /\ pc = "chunk_end"
    /\ httpOpen' = FALSE
    /\ log' = Append(log, Call("end", chunk, 0))
    /\ bytesRead' = 0
    /\ pages' = 0
    /\ IF chunk + 1 < RENDER_CHUNKS
       THEN /\ chunk' = chunk + 1
            /\ pc' = "chunk_begin"
            /\ UNCHANGED <<lastRenderSuccess, lastRet>>
       ELSE /\ chunk' = 0
            /\ lastRenderSuccess' = TRUE
            /\ lastRet' = "ok"
            /\ pc' = "returned"
    /\ UNCHANGED <<config, lastRefreshTime, currentTime, now, wifi, inSetup, geom,
                   retries, prevRet, cfgBefore, cfgRet,
                   attemptStart, prevAttemptStart, gapInterval, fin, fout>>

----------------------------------------------------------------------------
(* Back in setup() / loop()                                                *)

\* setup() line 455: lastRefreshTime = millis(); loop() starts after it
SetupFinish ==
    /\ pc = "returned"
    /\ inSetup
    /\ lastRefreshTime' = Millis(now)
    /\ inSetup' = FALSE
    /\ pc' = "idle"
    /\ geom' = NoGeometry
    /\ log' = <<>>
    /\ UNCHANGED <<config, lastRenderSuccess, currentTime, now, wifi, chunk,
                   httpOpen, bytesRead, pages, retries, prevRet, lastRet,
                   cfgBefore, cfgRet, attemptStart, prevAttemptStart, gapInterval,
                   fin, fout>>

RefreshedAtMutantOnlyOnSuccess(ret, cur, last) == IF ret = "ok" THEN cur ELSE last

\* loop() line 488: the timestamp recorded after a refresh
RefreshedAt(ret, cur, last) == cur

\* loop() not coming back after a failed pass
LoopFinishMutantHaltsOnFailure ==
    /\ pc = "returned"
    /\ ~inSetup
    /\ lastRet = "ok"
    /\ CanWait(LOOP_DELAY_MS)
    /\ lastRefreshTime' = RefreshedAt(lastRet, currentTime, lastRefreshTime)
    /\ now' = Advance(now, LOOP_DELAY_MS)
    /\ pc' = "idle"
    /\ geom' = NoGeometry
    /\ log' = <<>>
    /\ UNCHANGED <<config, lastRenderSuccess, currentTime, wifi, inSetup, chunk,
                   httpOpen, bytesRead, pages, retries, prevRet, lastRet,
                   cfgBefore, cfgRet, attemptStart, prevAttemptStart, gapInterval,
                   fin, fout>>

\* loop() lines 488-494
LoopFinish ==
    /\ pc = "returned"
    /\ ~inSetup
    /\ CanWait(LOOP_DELAY_MS)
    /\ lastRefreshTime' = RefreshedAt(lastRet, currentTime, lastRefreshTime)
    /\ now' = Advance(now, LOOP_DELAY_MS)
    /\ pc' = "idle"
    /\ geom' = NoGeometry
    /\ log' = <<>>
    /\ UNCHANGED <<config, lastRenderSuccess, currentTime, wifi, inSetup, chunk,
                   httpOpen, bytesRead, pages, retries, prevRet, lastRet,
                   cfgBefore, cfgRet, attemptStart, prevAttemptStart, gapInterval,
                   fin, fout>>

Init ==
    /\ SysInit
    /\ pc = "setup_wifi"
    /\ fin = <<>>
    /\ fout = <<>>

Next ==
    \/ WifiDrop
    \/ SetupWifi
    \/ LoopPoll
    \/ Reconnect
    \/ LoadConfig
    \/ RenderStart
    \/ ChunkBegin
    \/ ChunkGet
    \/ ChunkRead
    \/ ChunkDraw
    \/ ChunkEnd
    \/ SetupFinish
    \/ LoopFinish

Spec == Init /\ [][Next]_vars

\* The program's own steps: setup() runs to its end and loop() is called again
\* and again, so a step of the program that can be taken is taken.  The link
\* dropping is the environment's step and is under no such obligation.
Program ==
    \/ SetupWifi
    \/ LoopPoll
    \/ Reconnect
    \/ LoadConfig
    \/ RenderStart
    \/ ChunkBegin
    \/ ChunkGet
    \/ ChunkRead
    \/ ChunkDraw
    \/ ChunkEnd
    \/ SetupFinish
    \/ LoopFinish

SpecLive == Init /\ [][Next]_vars /\ WF_vars(Program)

\* The device taken up in loop() shortly before millis() wraps: a refresh has
\* just recorded its timestamp, WrapLeads ms (one of) before 2^32, and loop()
\* has waited its delay since.
WrapLeads == {1200, 2000, 2800}
WrapStamp(lead) == U32Sub(U32Zero, U32OfInt(lead))
WrapInterval == 2

WrapInit ==
    /\ \E lead \in WrapLeads :
          /\ fin = <<"wrap", WrapStamp(lead)>>
          /\ lastRefreshTime = WrapStamp(lead)
          /\ currentTime = WrapStamp(lead)
          /\ now = Advance(Time(0, WrapStamp(lead)), LOOP_DELAY_MS)
          /\ attemptStart = Time(0, WrapStamp(lead))
          /\ prevAttemptStart =
                Time(0, U32Sub(WrapStamp(lead), U32OfInt(WrapInterval * MS_PER_SEC)))
    /\ config = [DefaultConfig EXCEPT !.refreshIntervalSec = WrapInterval]
    /\ gapInterval = WrapInterval
    /\ \E h \in {<<TRUE, "ok">>, <<FALSE, "fail">>} :
          lastRenderSuccess = h[1] /\ lastRet = h[2]
    /\ prevRet = "none"
    /\ wifi \in BOOLEAN
    /\ inSetup = FALSE
    /\ chunk = 0
    /\ geom = NoGeometry
    /\ httpOpen = FALSE
    /\ bytesRead = 0
    /\ pages = 0
    /\ retries = 0
    /\ log = <<>>
    /\ cfgBefore = config
    /\ cfgRet = "ok"
    /\ pc = "idle"
    /\ fout = <<>>

SpecWrap == WrapInit /\ [][Next]_vars

----------------------------------------------------------------------------
(* One refresh on its own: the configuration fetch and the render pass,    *)
(* from every state of the flag and of the link the device can be in.      *)

\* (lastRenderSuccess, outcome of the pass before) as the device can hold them
PassHistories ==
    {<<FALSE, "none">>, <<FALSE, "fail">>, <<TRUE, "ok">>, <<TRUE, "fail">>}

PassInit ==
    /\ config = DefaultConfig
    /\ \E h \in PassHistories : lastRenderSuccess = h[1] /\ lastRet = h[2]
    /\ wifi = TRUE
    /\ inSetup = FALSE
    /\ lastRefreshTime = U32Zero
    /\ currentTime = U32Zero
    /\ now = TimeZero
    /\ chunk = 0
    /\ geom = NoGeometry
    /\ httpOpen = FALSE
    /\ bytesRead = 0
    /\ pages = 0
    /\ retries = 0
    /\ log = <<>>
    /\ prevRet = "none"
    /\ cfgBefore = config
    /\ cfgRet = "none"
    /\ attemptStart = TimeZero
    /\ prevAttemptStart = NoTime
    /\ gapInterval = 0
    /\ pc = "config"
    /\ fin = PASS_MARK
    /\ fout = <<>>

PassNext ==
    \/ WifiDrop
    \/ LoadConfig
    \/ RenderStart
    \/ ChunkBegin
    \/ ChunkGet
    \/ ChunkRead
    \/ ChunkDraw
    \/ ChunkEnd

SpecPass == PassInit /\ [][PassNext]_vars

\* The pass with the draw cycle obliged to go on: the do-while of lines 272-274
\* has no exit but nextPage() returning false, and the thread is not stopped
\* in it.
SpecPassLive == PassInit /\ [][PassNext]_vars /\ WF_vars(ChunkDraw)

----------------------------------------------------------------------------
(* Reading the history                                                     *)

Chunks == 0..(RENDER_CHUNKS - 1)
Sessions == {CONFIG_SESSION} \cup Chunks

\* positions of the calls named e made for session / chunk k
Calls(e, k) == {i \in DOMAIN log : log[i].e = e /\ log[i].k = k}
Made(e, k) == Calls(e, k) # {}
CallsNamed(e) == {i \in DOMAIN log : log[i].e = e}

OpenFailedOn(k) == \E i \in Calls("begin", k) : log[i].v = 0
Opened(k) == \E i \in Calls("begin", k) : log[i].v = 1

\* sessions begun and not yet ended after the first n calls of the history
OpenSessionsAfter(n) ==
    {k \in Sessions :
        Cardinality({i \in 1..n : log[i].e = "begin" /\ log[i].k = k /\ log[i].v = 1})
            > Cardinality({i \in 1..n : log[i].e = "end" /\ log[i].k = k})}

\* positions at which a failure is presented
Presentations == CallsNamed("showError") \cup CallsNamed("showErrorIndicator")

\* a step that puts the thread back at the entry of setup()
DeviceRestarts == pc # "setup_wifi" /\ pc' = "setup_wifi"

PassReturned == pc = "returned"
PassFailed == pc = "returned" /\ lastRet = "fail"
PassSucceeded == pc = "returned" /\ lastRet = "ok"

\* t2 - t1 >= ms, for true times t1 <= t2 and an int ms
TimeGapAtLeast(t1, t2, ms) ==
    \/ t2.wraps - t1.wraps >= 2
    \/ /\ t2.wraps - t1.wraps = 1
       /\ \/ ~U32Less(t2.ms, t1.ms)
          \/ ~U32Less(U32Sub(t2.ms, t1.ms), U32OfInt(ms))
    \/ /\ t2.wraps = t1.wraps
       /\ ~U32Less(t2.ms, t1.ms)
       /\ ~U32Less(U32Sub(t2.ms, t1.ms), U32OfInt(ms))

\* Query parameters of a URL: the first "?" and every later "&" start one
QueryStarts(u) ==
    {i \in 1..Len(u) : \/ u[i] = "?" /\ \A j \in 1..(i - 1) : u[j] # "?"
                       \/ u[i] = "&" /\ \E j \in 1..(i - 1) : u[j] = "?"}

\* the parameters of u named name (by the position of their delimiter)
Params(u, name) ==
    {i \in QueryStarts(u) :
        /\ i + Len(name) + 1 <= Len(u)
        /\ SubSeq(u, i + 1, i + Len(name)) = name
        /\ u[i + Len(name) + 1] = "="}

P_TEMPLATE == <<"t","e","m","p","l","a","t","e">>
P_URL == <<"u","r","l">>
P_FORMAT == <<"f","o","r","m","a","t">>
P_THRESHOLD == <<"t","h","r","e","s","h","o","l","d">>
P_OFFSET == <<"o","f","f","s","e","t">>
P_LIMIT == <<"l","i","m","i","t">>

----------------------------------------------------------------------------
(* Claims                                                                  *)

\* C1 (as claimed): a pass that fails when the pass before it failed, or when
\* it is the first pass, presents the full-screen error (showError) and not
\* the corner indicator -- also the second of two failed passes after a
\* successful one.
C1_FullErrorAfterFailedPass ==
    (PassFailed /\ prevRet \in {"none", "fail"})
        => (CallsNamed("showError") # {} /\ CallsNamed("showErrorIndicator") = {})

\* C2: a pass that fails right after a pass that returned success presents the
\* corner indicator, and showError is not called in that pass.
C2_IndicatorAfterSuccess ==
    (PassFailed /\ prevRet = "ok")
        => (Cardinality(CallsNamed("showErrorIndicator")) = 1
            /\ CallsNamed("showError") = {})

C2_Witness ==
    /\ PassFailed
    /\ prevRet = "ok"
    /\ \E i \in DOMAIN log : log[i] = Call("showErrorIndicator", 1, 0)
    /\ Made("get", 1)

\* C3: once begin() has failed on chunk k the pass has returned failure; chunks
\* 0..k-1 were fetched, read and drawn; no GET, read or draw was made for
\* chunks k..N-1.
C3_OpenFailureStopsPass ==
    \A k \in Chunks :
        OpenFailedOn(k) =>
            /\ PassFailed
            /\ \A j \in 0..(k - 1) :
                  Made("get", j) /\ Made("read", j) /\ Made("draw", j)
            /\ \A j \in k..(RENDER_CHUNKS - 1) :
                  ~Made("get", j) /\ ~Made("read", j) /\ ~Made("draw", j)

C3_Witness ==
    /\ OpenFailedOn(2)
    /\ Made("draw", 0)
    /\ Made("draw", 1)
    /\ PassFailed

\* C4: every session whose begin() succeeded is ended exactly once by the time
\* the function that opened it is left, never twice, and only the session the
\* thread is working on is open; a session whose begin() failed is not ended.
C4_EndOncePerBegin ==
    \A k \in Sessions :
        /\ Cardinality(Calls("begin", k)) <= 1
        /\ Cardinality(Calls("end", k)) <= 1
        /\ Made("end", k) => Opened(k)
        /\ (Opened(k) /\ ~Made("end", k))
              => (httpOpen /\ chunk = k
                  /\ pc \in {"chunk_get", "chunk_read", "chunk_draw", "chunk_end"})
        /\ \A i \in Calls("end", k) : \A j \in Calls("begin", k) : j < i

C4_Witness ==
    /\ PassFailed
    /\ Opened(CONFIG_SESSION) /\ Made("end", CONFIG_SESSION)
    /\ Opened(0) /\ Made("end", 0) /\ Made("draw", 0)
    /\ Opened(1) /\ Made("end", 1) /\ ~Made("read", 1)
    /\ \E i \in Calls("get", 1) : log[i].v = HTTP_CODE_OK

\* C5 (as claimed): for width and height that are positive multiples of 8*N the
\* N row ranges tile [0, height) and the N byte ranges tile
\* [62, 62 + width*height/8), each without gap or overlap.
C5_ChunksPartition ==
    (pc = "fn_done" /\ fin.w % Bytes8N = 0 /\ fin.h % Bytes8N = 0)
        => /\ fout.rowsPerChunk > 0
           /\ fout.bytesPerChunk > 0
           /\ YPos(fout, 0) = 0
           /\ ChunkOffsetBytes(fout, 0) = BMP_HEADER_SIZE
           /\ \A i \in Chunks :
                 /\ ChunkLimitBytes(fout, i) = fout.bytesPerChunk
                 /\ i + 1 < RENDER_CHUNKS =>
                       /\ YPos(fout, i) + fout.rowsPerChunk = YPos(fout, i + 1)
                       /\ ChunkOffsetBytes(fout, i) + ChunkLimitBytes(fout, i)
                             = ChunkOffsetBytes(fout, i + 1)
           /\ YPos(fout, RENDER_CHUNKS - 1) + fout.rowsPerChunk = fin.h
           /\ (ChunkOffsetBytes(fout, RENDER_CHUNKS - 1) - BMP_HEADER_SIZE)
                 + ChunkLimitBytes(fout, RENDER_CHUNKS - 1) = (fin.w \div 8) * fin.h

\* C6: a read that returns fewer bytes than bytesPerChunk (0 included) is
\* followed by the draw of that chunk, the chunk's session is closed before the
\* pass moves on, and a pass in which every chunk got as far as its read
\* returns success.
C6_ShortReadDoesNotAbort ==
    /\ \A i \in DOMAIN log :
          log[i].e = "read" =>
              IF i = Len(log) THEN pc = "chunk_draw" /\ chunk = log[i].k
              ELSE log[i + 1] = Call("draw", log[i].k, YPos(geom, log[i].k))
    /\ \A k \in Chunks :
          (Made("read", k) /\ (PassReturned \/ chunk > k)) => Made("end", k)
    /\ (PassReturned /\ \A k \in Chunks : Made("read", k)) => lastRet = "ok"
    /\ (PassReturned /\ lastRet = "fail")
          => \E k \in Chunks : ~Made("read", k)

C6_Witness ==
    /\ PassSucceeded
    /\ geom.bytesPerChunk > 1
    /\ \E i \in Calls("read", 0) : log[i].v = 0
    /\ \E i \in Calls("read", 1) : log[i].v > 0 /\ log[i].v < geom.bytesPerChunk
    /\ \E i \in Calls("read", 2) : log[i].v = geom.bytesPerChunk

CfgFailureInput ==
    \/ ~(fin.connected /\ fin.clientOk)
    \/ fin.httpCode # HTTP_CODE_OK
    \/ ~fin.parseOk

\* C7: when loadRemoteConfig fails (no session, status other than 200, parse
\* error) it returns false and every field of the configuration is as before.
C7_FailureLeavesConfig ==
    (pc = "fn_done" /\ CfgFailureInput)
        => /\ fout.ret = FALSE
           /\ \A f \in ConfigFields : fout.config[f] = fin.cfg[f]

C7_Witness ==
    /\ pc = "fn_done"
    /\ fin.connected /\ fin.clientOk /\ fin.httpCode = HTTP_CODE_OK /\ ~fin.parseOk
    /\ "display.width" \in fin.doc.has
    /\ "image.base_url" \in fin.doc.has
    /\ fout.ret = FALSE
    /\ fout.config = fin.cfg

\* the JSON key each configuration field is read from
KeyOf ==
    [imageBaseUrl       |-> "image.base_url",
     imagePath          |-> "image.path",
     imageFormat        |-> "image.parameters.format",
     imageThreshold     |-> "image.parameters.threshold",
     imageUrl           |-> "image.parameters.url",
     imageTemplate      |-> "image.parameters.template",
     displayWidth       |-> "display.width",
     displayHeight      |-> "display.height",
     refreshIntervalSec |-> "display.refresh_interval_sec"]

\* C8: after a successful fetch a field differs from its prior value only if
\* its key is in the document; a document holding only
\* display.refresh_interval_sec changes refreshIntervalSec alone.
C8_AbsentKeyKeepsField ==
    (pc = "fn_done" /\ fout.ret = TRUE)
        => /\ \A f \in ConfigFields :
                 fout.config[f] # fin.cfg[f] => KeyOf[f] \in fin.doc.has
           /\ fin.doc.has = {"display", "display.refresh_interval_sec"}
                 => fout.config = [fin.cfg EXCEPT !.refreshIntervalSec =
                                        fin.doc.val.refresh_interval_sec]

C8_Witness ==
    /\ pc = "fn_done"
    /\ fout.ret = TRUE
    /\ fin.doc.has = {"display", "display.refresh_interval_sec"}
    /\ fout.config.refreshIntervalSec = fin.doc.val.refresh_interval_sec
    /\ fout.config.refreshIntervalSec # fin.cfg.refreshIntervalSec
    /\ fout.config.displayWidth = fin.cfg.displayWidth

C10_OneOfTemplateUrl ==
    (pc = "fn_done")
        => /\ Cardinality(Params(fout, P_TEMPLATE)) + Cardinality(Params(fout, P_URL)) = 1
           /\ Len(fin.cfg.imageTemplate) > 0 => Params(fout, P_URL) = {}
           /\ Len(fin.cfg.imageTemplate) = 0 => Params(fout, P_TEMPLATE) = {}
           /\ \A n \in {P_FORMAT, P_THRESHOLD, P_OFFSET, P_LIMIT} : Params(fout, n) # {}

\* C11: complementing a byte sequence twice gives the sequence back, every
\* byte staying in 0..255; one complement changes every byte.
C11_InversionInvolution ==
    /\ pc = "fn_done" => fout = fin
    /\ pc \in {"fn_once", "fn_done"} =>
          (Len(fout) = Len(fin) /\ \A i \in DOMAIN fout : fout[i] \in Byte)
    /\ pc = "fn_once" => \A i \in DOMAIN fin : fout[i] # fin[i] /\ fout[i] + fin[i] = Pow2(BYTE_BITS) - 1

C11_Witness ==
    /\ pc = "fn_done"
    /\ Len(fin) = MaxSeqLen
    /\ fin[1] = 0 /\ fin[2] = Pow2(BYTE_BITS) - 1 /\ fin[3] = 1
    /\ fout = fin

C13_DimensionsDivisible ==
    ~ProductOverflows(config.displayWidth, config.displayHeight)
        /\ (config.displayWidth * config.displayHeight) % (8 * RENDER_CHUNKS) = 0

\* the calls made on behalf of one chunk, in the order the loop body makes them
StepRank == [begin |-> 1, get |-> 2, size |-> 3, read |-> 4, draw |-> 5, end |-> 6]
IsChunkCall(c) == c.k \in Chunks /\ c.e \in DOMAIN StepRank

\* C14: within a pass the chunk calls are made in ascending chunk order and,
\* within a chunk, in the order begin, get, read, draw..., end; chunk i+1 is
\* opened only after chunk i was fetched, drawn and closed; no chunk is opened,
\* fetched or read twice, its draws are consecutive, and none is skipped.
C14_ChunksInAscendingOrder ==
    /\ \A i \in 1..(Len(log) - 1) :
          /\ IsChunkCall(log[i + 1]) => log[i].e \in DOMAIN StepRank
          /\ (IsChunkCall(log[i]) /\ IsChunkCall(log[i + 1])) =>
                \/ log[i].k = log[i + 1].k
                      /\ StepRank[log[i].e] <= StepRank[log[i + 1].e]
                \/ log[i + 1].k = log[i].k + 1
                      /\ log[i].e = "end" /\ log[i + 1].e = "begin"
    /\ \A k \in Chunks :
          /\ \A e \in {"begin", "get", "read", "end"} : Cardinality(Calls(e, k)) <= 1
          /\ \A i \in Calls("draw", k) : \A j \in Calls("draw", k) :
                i < j => \A x \in i..j : x \in Calls("draw", k)
          /\ (k > 0 /\ Made("begin", k)) =>
                /\ Opened(k - 1)
                /\ \E i \in Calls("get", k - 1) : log[i].v = HTTP_CODE_OK
                /\ Made("read", k - 1)
                /\ Made("draw", k - 1)
                /\ Made("end", k - 1)
          /\ (Made("begin", k) /\ pc \in {"chunk_begin", "chunk_get", "chunk_read",
                                         "chunk_draw", "chunk_end"}) => chunk >= k
    /\ pc \in {"chunk_get", "chunk_read", "chunk_draw", "chunk_end"} => Opened(chunk)
    /\ pc = "chunk_begin" => \A k \in Chunks : Made("begin", k) <=> k < chunk

C14_Witness ==
    /\ PassSucceeded
    /\ Cardinality(Calls("draw", 1)) = 2
    /\ \A k \in Chunks : Made("end", k)

\* chunk k was opened, answered 200, read (its declared length was positive),
\* drawn and closed
ChunkCompleted(k) ==
    /\ Opened(k)
    /\ \E i \in Calls("get", k) : log[i].v = HTTP_CODE_OK
    /\ Made("read", k)
    /\ Made("draw", k)
    /\ Made("end", k)

\* C15: a pass returns success exactly when all N chunks were opened, answered
\* 200 with a positive length and were drawn, and then the flag read by the
\* next pass is true; the flag is written by nothing but the successful return,
\* so a pass that aborts returns failure and leaves the flag as it found it
\* (a device that restarts has its memory constructed anew, which is no step
\* of a pass).
C15_SuccessIffAllChunks ==
    /\ [](PassReturned => (lastRet = "ok" <=> \A k \in Chunks : ChunkCompleted(k)))
    /\ [](PassReturned => lastRet \in {"ok", "fail"})
    /\ [](PassSucceeded => lastRenderSuccess)
    /\ [][(lastRenderSuccess' # lastRenderSuccess /\ ~DeviceRestarts)
            => (pc = "chunk_end" /\ pc' = "returned" /\ lastRet' = "ok"
                /\ lastRenderSuccess')]_vars

C15_Witness ==
    /\ PassSucceeded
    /\ prevRet = "fail"
    /\ lastRenderSuccess
    /\ \A k \in Chunks : ChunkCompleted(k)
    /\ \E i \in Calls("read", 2) : log[i].v = 0

\* the clock of the model (stopped at MaxNowMs) leaves room for the polls up
\* to the next refresh
ClockLeavesRoom ==
    /\ now.wraps = 0
    /\ now.ms.hi = 0
    /\ now.ms.lo + (MS_PER_SEC * (IF config.refreshIntervalSec > 0
                                  THEN config.refreshIntervalSec ELSE 1)) <= MaxNowMs

\* C16: after a failed render pass, and after a refresh whose configuration
\* fetch failed, the scheduler is idle again and, the link reporting connected
\* after finitely many retries and the clock advancing, a further render pass
\* is started; a failed configuration fetch is followed by the render pass of
\* the same refresh.
C16_FailureNeverStopsDevice ==
    /\ (PassFailed /\ ClockLeavesRoom) ~> (pc = "idle")
    /\ (PassFailed /\ ClockLeavesRoom) ~> (pc = "chunk_begin" /\ chunk = 0)
    /\ (PassReturned /\ cfgRet = "fail" /\ ClockLeavesRoom)
          ~> (pc = "chunk_begin" /\ chunk = 0)
    /\ (pc = "render" /\ cfgRet = "fail") ~> (pc = "chunk_begin" /\ chunk = 0)

C16_Witness ==
    /\ pc = "chunk_begin"
    /\ chunk = 0
    /\ ~inSetup
    /\ prevRet = "fail"
    /\ cfgBefore.refreshIntervalSec > 0
    /\ currentTime # U32Zero

\* C17: a GET for chunk k answered with a status other than 200 (204, 404 and
\* the negative client error alike) ends the pass in failure at once: the
\* session is closed, nothing is read or drawn for chunk k, no call is made for
\* a later chunk, and the presentation is the last call -- showError carrying
\* that status as its code when the flag is false, the indicator otherwise.
C17_Non200AbortsPass ==
    \A k \in Chunks : \A i \in Calls("get", k) :
        log[i].v # HTTP_CODE_OK =>
            /\ PassFailed
            /\ Len(log) = i + 2
            /\ log[i + 1] = Call("end", k, 0)
            /\ log[i + 2] = IF lastRenderSuccess
                            THEN Call("showErrorIndicator", k, 0)
                            ELSE Call("showError", k, log[i].v)
            /\ ~Made("read", k) /\ ~Made("draw", k)
            /\ \A j \in (k + 1)..(RENDER_CHUNKS - 1) : \A e \in DOMAIN StepRank :
                  ~Made(e, j)

C17_Witness ==
    /\ PassFailed
    /\ \E i \in Calls("get", 1) : log[i].v = 204
    /\ \E i \in DOMAIN log : log[i] = Call("showError", 1, 204)
    /\ Made("draw", 0)

\* C18: a chunk answered 200 whose declared length is zero or negative ends the
\* pass in failure before anything is read or drawn for it: the session is
\* closed, no call is made for a later chunk, and the presentation is given the
\* code 0, not the status.
C18_NonPositiveLengthAborts ==
    \A k \in Chunks : \A i \in Calls("size", k) :
        /\ i > 1 /\ log[i - 1] = Call("get", k, HTTP_CODE_OK)
        /\ log[i].v <= 0 =>
              /\ PassFailed
              /\ Len(log) = i + 2
              /\ log[i + 1] = Call("end", k, 0)
              /\ log[i + 2] = IF lastRenderSuccess
                              THEN Call("showErrorIndicator", k, 0)
                              ELSE Call("showError", k, 0)
              /\ ~Made("read", k) /\ ~Made("draw", k)
              /\ \A j \in (k + 1)..(RENDER_CHUNKS - 1) : \A e \in DOMAIN StepRank :
                    ~Made(e, j)
        /\ log[i].v > 0 => Made("read", k)

C18_Witness ==
    /\ PassFailed
    /\ \E i \in Calls("size", 1) : log[i].v = 0
    /\ \E i \in DOMAIN log : log[i] = Call("showError", 1, 0)
    /\ Made("draw", 0)
    /\ ~Made("read", 1)

\* C19: a chunk read that returns bytesRead bytes leaves the complement of
\* the received bytes at the buffer indices [0, bytesRead) and leaves every
\* buffer byte at an index >= bytesRead as it was before the read.
C19_ReadReplacesOnlyPrefix ==
    (pc = "fn_done" /\ ~fout.fault) =>
        /\ fout.bytesRead = BytesStored(BufReceived, BufWanted)
        /\ \A i \in 1..MaxBufLen :
            /\ i <= fout.bytesRead => fout.mem[i] = Complement(BufReceived[i])
            /\ i > fout.bytesRead => fout.mem[i] = BufOld[i]

\* a short read over a buffer whose stale tail and whose replaced head are
\* both told apart from what arrived
C19_Witness ==
    /\ pc = "fn_done"
    /\ ~fout.fault
    /\ fout.bytesRead = 2
    /\ BufWanted = MaxBufLen
    /\ BufOld[MaxBufLen] = 1
    /\ fout.mem[MaxBufLen] = 1
    /\ BufOld[1] = 1
    /\ BufReceived[1] = 1
    /\ fout.mem[1] = Pow2(BYTE_BITS) - 2

\* C20: at every point of a pass at most one transport session is open (the
\* open sessions grow only at a begin, so the count is taken after each begin,
\* and the connection counts as open exactly when one is); none is open when
\* showRemoteImage has returned, with either result, and none is open at the
\* moment showError or showErrorIndicator is called.
C20_SessionScopedToChunk ==
    /\ \A i \in CallsNamed("begin") : Cardinality(OpenSessionsAfter(i)) <= 1
    /\ httpOpen <=> OpenSessionsAfter(Len(log)) # {}
    /\ httpOpen => /\ pc \in {"chunk_get", "chunk_read", "chunk_draw", "chunk_end"}
                   /\ OpenSessionsAfter(Len(log)) = {chunk}
    /\ PassReturned => ~httpOpen
    /\ \A i \in Presentations : OpenSessionsAfter(i - 1) = {}

\* a pass that closed the sessions of the configuration and of chunk 0, then
\* closed chunk 1's refused session before presenting the failure
C20_Witness ==
    /\ PassFailed
    /\ ~httpOpen
    /\ Opened(CONFIG_SESSION) /\ Opened(0) /\ Opened(1)
    /\ \E i \in Calls("get", 1) :
          /\ log[i].v = 404
          /\ OpenSessionsAfter(i) = {1}
          /\ i + 2 \in Presentations
          /\ OpenSessionsAfter(i + 1) = {}

\* C21: a poll of loop() starts a refresh exactly when the whole seconds from
\* the recorded timestamp to the time of the poll are at least the
\* refreshIntervalSec in the configuration at that poll; a poll that finds
\* fewer seconds elapsed only waits: configuration, timestamp, success flag,
\* link, display and transport are as before it.
C21_RefreshIffIntervalElapsed ==
    [][pc = "idle" =>
          LET elapsedMs == U32Sub(Millis(now), lastRefreshTime)
              due == ~U32Less(elapsedMs, U32OfInt(config.refreshIntervalSec * MS_PER_SEC))
          IN  /\ due <=> pc' = "connect"
              /\ due => attemptStart' = now /\ log' = <<>>
              /\ ~due => /\ pc' = "idle"
                         /\ UNCHANGED <<config, lastRefreshTime, lastRenderSuccess,
                                        wifi, httpOpen, log, lastRet, attemptStart>>]_vars

\* a refresh started at the poll where the elapsed seconds first equal the
\* interval, the polls before it (since the refresh that recorded the
\* timestamp) having found fewer
C21_Witness ==
    /\ pc = "connect"
    /\ ~inSetup
    /\ prevAttemptStart # NoTime
    /\ config.refreshIntervalSec = 2
    /\ ElapsedSeconds(currentTime, lastRefreshTime) = config.refreshIntervalSec
    /\ attemptStart = now

\* the positions of the thread inside showRemoteImage's loop
ChunkSteps == {"chunk_begin", "chunk_get", "chunk_read", "chunk_draw", "chunk_end"}

\* C22: a refresh of loop() goes through its steps in one order -- the link is
\* seen connected, then the configuration is reloaded, then the render pass
\* runs, then the timestamp is recorded.  The pass follows the reload whatever
\* the reload returned, it takes its geometry from the configuration as the
\* reload left it, the configuration does not change during the pass, and
\* the timestamp is written by no other step.  A device that faults in the
\* oversized read and restarts is in setup() again; the refresh it cut short
\* made no step out of this order.
C22_RefreshStepOrder ==
    [][(~inSetup /\ ~DeviceRestarts) =>
          /\ (pc = "connect" /\ pc' # pc) => (pc' = "config" /\ wifi')
          /\ (pc = "config" /\ pc' # pc) =>
                (pc' = "render" /\ cfgRet' \in {"ok", "fail"} /\ cfgBefore' = config)
          /\ pc = "render" =>
                /\ pc' = "chunk_begin"
                /\ config' = config
                /\ geom'.totalPixels \in TotalPixels(config.displayWidth, config.displayHeight)
                /\ geom' = Geometry(geom'.totalPixels, config.displayHeight)
          /\ pc \in ChunkSteps =>
                /\ pc' \in ChunkSteps \cup {"returned"}
                /\ config' = config /\ geom' = geom
          /\ pc = "returned" => (pc' = "idle" /\ lastRefreshTime' = currentTime)
          /\ lastRefreshTime' # lastRefreshTime => (pc = "returned" /\ pc' = "idle")]_vars

\* a refresh of loop() whose reload failed, whose pass ran all the same and
\* succeeded, and whose timestamp was then recorded
C22_Witness ==
    /\ pc = "idle"
    /\ ~inSetup
    /\ prevAttemptStart # NoTime
    /\ cfgRet = "fail"
    /\ lastRet = "ok"
    /\ lastRefreshTime = Millis(attemptStart)
    /\ lastRefreshTime # U32Zero

\* C23 (as claimed): in every pass the length asked of readBytes,
\* bytesPerChunk, is at most CHUNK_SIZE, and so is the size of the bitmap
\* region drawn from the buffer.
C23_ReadFitsBuffer ==
    pc \in ChunkSteps =>
        /\ geom.bytesPerChunk <= CHUNK_SIZE
        /\ DrawnBytes(config, geom) <= CHUNK_SIZE

\* C24: in the draw cycle of a chunk every turn calls drawBitmap and then asks
\* nextPage(): after an answer of true the cycle takes another turn, after the
\* answer false it ends -- so a chunk that left the cycle was drawn once more
\* than nextPage() answered true, at least once -- and with a surface that
\* answers true only finitely often the cycle is left.
C24_DrawCycle ==
    /\ [](pc = "chunk_draw" => Cardinality(Calls("draw", chunk)) = pages)
    /\ [](pc = "chunk_end" => Cardinality(Calls("draw", chunk)) = pages + 1)
    /\ [][(pc = "chunk_draw" /\ ~DeviceRestarts) =>
             /\ log' = Append(log, Call("draw", chunk, YPos(geom, chunk)))
             /\ pc' \in {"chunk_draw", "chunk_end"}
             /\ pc' = "chunk_draw" <=> pages' = pages + 1
             /\ pc' = "chunk_end" <=> pages' = pages]_vars
    /\ [][(pc # "chunk_draw" /\ pc' = "chunk_end") => FALSE]_vars
    /\ (pc = "chunk_draw" ~> pc # "chunk_draw")

\* a chunk whose surface asked for a second page: two draws, then the end of
\* the cycle
C24_Witness ==
    /\ pc = "chunk_end"
    /\ chunk = 1
    /\ pages = 1
    /\ Cardinality(Calls("draw", 1)) = 2
    /\ Cardinality(Calls("draw", 0)) = 1

\* (w * h) % m and (w * h) \div 8 for uint16_t w and h, without forming w * h
ProductMod(w, h, m) == ((w % m) * (h % m)) % m
ProductDiv8(w, h) == (w * (h \div 8)) + ((w * (h % 8)) \div 8)

\* C25 (as claimed): for positive width and height whose product is not a
\* multiple of 8*N the N requests have one length, bytesPerChunk >= 0, and
\* follow each other from offset 62 without gap, as the N row ranges do from
\* row 0; N*bytesPerChunk <= width*height/8 and N*rowsPerChunk <= height, fewer
\* than N rows staying uncovered -- what is not covered lies after the last
\* chunk.
C25_TruncationUnderCovers ==
    (pc = "fn_done" /\ fin.w > 0 /\ fin.h > 0 /\ ProductMod(fin.w, fin.h, Bytes8N) # 0)
        => /\ fout.bytesPerChunk >= 0
           /\ fout.rowsPerChunk >= 0
           /\ ChunkOffsetBytes(fout, 0) = BMP_HEADER_SIZE
           /\ YPos(fout, 0) = 0
           /\ \A i \in Chunks :
                 /\ ChunkLimitBytes(fout, i) = fout.bytesPerChunk
                 /\ i + 1 < RENDER_CHUNKS =>
                       /\ ChunkOffsetBytes(fout, i + 1)
                             = ChunkOffsetBytes(fout, i) + ChunkLimitBytes(fout, i)
                       /\ YPos(fout, i + 1) = YPos(fout, i) + fout.rowsPerChunk
           /\ RENDER_CHUNKS * fout.bytesPerChunk <= ProductDiv8(fin.w, fin.h)
           /\ RENDER_CHUNKS * fout.rowsPerChunk <= fin.h
           /\ fin.h - (RENDER_CHUNKS * fout.rowsPerChunk) < RENDER_CHUNKS

\* C26: a pass that has returned failure made exactly one error presentation
\* -- one call in all of showError and showErrorIndicator -- and made it as its
\* last call, after every draw of a chunk; a pass that has returned success
\* made none, and no presentation is made before the pass returns.
C26_OnePresentationPerFailure ==
    /\ PassFailed =>
          /\ Cardinality(Presentations) = 1
          /\ Presentations = {Len(log)}
          /\ \A i \in CallsNamed("draw") : i < Len(log)
    /\ PassSucceeded => Presentations = {}
    /\ ~PassReturned => Presentations = {}

\* a pass failing on its last chunk, two chunks drawn before the presentation
C26_Witness ==
    /\ PassFailed
    /\ Made("draw", 0) /\ Made("draw", 1)
    /\ OpenFailedOn(2)
    /\ lastRenderSuccess
    /\ log[Len(log)] = Call("showErrorIndicator", 2, 0)
    /\ CallsNamed("showError") = {}

\* C27: the seconds loop() computes from the 32-bit difference of the clock
\* and the timestamp are the whole seconds of true time since the refresh that
\* recorded the timestamp, also when millis() has wrapped in between; so a
\* poll starts the next refresh exactly when interval seconds of true time
\* have passed -- not earlier, not later.
C27_ElapsedAcrossWrap ==
    /\ [](pc = "idle" /\ prevAttemptStart # NoTime =>
            LET e == ElapsedSeconds(Millis(now), lastRefreshTime)
            IN  /\ lastRefreshTime = Millis(attemptStart)
                /\ TimeGapAtLeast(attemptStart, now, e * MS_PER_SEC)
                /\ ~TimeGapAtLeast(attemptStart, now, (e + 1) * MS_PER_SEC))
    /\ [][(pc = "idle" /\ prevAttemptStart # NoTime) =>
            (pc' = "connect" <=>
                TimeGapAtLeast(attemptStart, now,
                               config.refreshIntervalSec * MS_PER_SEC))]_vars

\* a refresh found due by a poll made after the wrap, against a timestamp
\* recorded before it: the clock reads less than the timestamp
C27_Witness ==
    /\ pc = "connect"
    /\ now.wraps = 1
    /\ attemptStart = now
    /\ prevAttemptStart.wraps = 0
    /\ lastRefreshTime = Millis(prevAttemptStart)
    /\ U32Less(currentTime, lastRefreshTime)
    /\ ElapsedSeconds(currentTime, lastRefreshTime) = config.refreshIntervalSec
    /\ config.refreshIntervalSec = 2

\* s begins with p
IsPrefix(p, s) == Len(p) <= Len(s) /\ SubSeq(s, 1, Len(p)) = p

\* C28: every configuration fetch asks for imageBaseUrl + "/config" and every
\* image request begins with imageBaseUrl, imageBaseUrl being the one the
\* latest fetch left; the base URL changes only in a successful fetch whose
\* document holds image.base_url, to the value held there, and stays as it is
\* in every other operation -- nothing puts the compiled-in default back.
C28_RequestsFollowBaseUrl ==
    (pc = "fn") =>
        /\ \A j \in DOMAIN fout :
              /\ fout[j].before = (IF j = 1 THEN STR_DEFAULT_BASE_URL ELSE fout[j - 1].after)
              /\ fout[j].op = "config" => fout[j].url = fout[j].before \o STR_CONFIG_PATH
              /\ fout[j].op = "image" => IsPrefix(fout[j].before, fout[j].url)
              /\ fout[j].after # fout[j].before =>
                    /\ fout[j].op = "config" /\ fout[j].ret
                    /\ "image.base_url" \in fout[j].doc.has
                    /\ fout[j].after = fout[j].doc.val.base_url
              /\ (fout[j].op = "config" /\ fout[j].ret
                    /\ {"image", "image.base_url"} \subseteq fout[j].doc.has)
                    => fout[j].after = fout[j].doc.val.base_url
        /\ config.imageBaseUrl =
              (IF fout = <<>> THEN STR_DEFAULT_BASE_URL ELSE fout[Len(fout)].after)

\* a fetch moved the device to another server; the next fetch and the image
\* request after it went there
C28_Witness ==
    /\ pc = "fn"
    /\ Len(fout) = 3
    /\ fout[1].op = "config" /\ fout[1].ret
    /\ fout[1].after = STR_ALT_BASE_URL
    /\ fout[2].op = "config" /\ ~fout[2].ret
    /\ fout[2].url = STR_ALT_BASE_URL \o STR_CONFIG_PATH
    /\ fout[3].op = "image"
    /\ IsPrefix(STR_ALT_BASE_URL \o STR_ALT_PATH, fout[3].url)
    /\ config.imageBaseUrl # STR_DEFAULT_BASE_URL

\* C29: the reconnect step is left only with the link seen connected; with the
\* link already connected it is left at once -- no attempt, no delay (the
\* only other thing that can happen then is the link dropping) --;
\* otherwise every attempt that fails is followed by the delay and another
\* attempt, with no other way out; and once an attempt finds the link
\* connected (here: after at most MaxRetries failed ones) the step is left.
C29_EnsureConnected ==
    /\ [][(pc = "connect" /\ pc' # pc) => (pc' = "config" /\ wifi')]_vars
    /\ [][(pc = "connect" /\ wifi) =>
             \/ pc' = "config" /\ wifi' /\ now' = now /\ retries' = 0 /\ retries = 0
             \/ pc' = "connect" /\ ~wifi' /\ now' = now /\ retries' = retries]_vars
    /\ [][(pc = "connect" /\ ~wifi /\ ~wifi') =>
             /\ pc' = "connect"
             /\ retries' = retries + 1
             /\ now' = Advance(now, RECONNECT_DELAY_MS)]_vars
    /\ [](pc = "connect" => retries <= MaxRetries)
    /\ (pc = "connect" ~> (pc = "config" /\ wifi))

\* a refresh of loop() that found the link down, failed one attempt, waited
\* and then saw the link connected
C29_Witness ==
    /\ pc = "config"
    /\ ~inSetup
    /\ wifi
    /\ retries = 0
    /\ attemptStart # NoTime
    /\ now = Advance(attemptStart, RECONNECT_DELAY_MS)

====
